---- MODULE Spec2Model ----
(***************************************************************************)
(* A model of minecraft-bedrock-update-backup.py: one run of the script is *)
(* the sequence detect -> create_backup -> resolve link -> compare version *)
(* -> chunked download -> extract -> merge -> write version marker.  The   *)
(* files the script keeps on disk persist from one run to the next.        *)
(***************************************************************************)
EXTENDS Integers, Sequences, FiniteSets, TLC

(* ------------------------------ bounds -------------------------------- *)
\* runs of the script in one behaviour
MaxRuns == 2
\* largest number of 1 MiB ranges of a download inside a full run (Spec)
MaxRunChunks == 2
\* largest number of ranges in the downloader specification (SpecDownload)
MaxChunks == 6
\* largest number of ranges in the partitioning specification (SpecPlan)
MaxPlanChunks == 12
\* entries whose replacement fails in one merge
MaxMergeFaults == 1

(* ------------------------- program constants -------------------------- *)
chunk_size == 1024 * 1024
max_workers == 5
BEDROCK_EXECUTABLE == "bedrock_server"
SCRIPT == "minecraft-bedrock-update-backup.py"
excluded_items == {SCRIPT, "updater", "backup"}
preserve_items ==
  {"config", "behavior_packs", "resource_packs",
   "allowlist.json", "permissions.json", "server.properties"}

(* --------------------------- model universe --------------------------- *)
\* an entry that does not exist; every stamp is a record of this shape
NoEntry == [kind |-> "none", ver |-> "", t |-> 0]
Stamp(kind, ver, t) == [kind |-> kind, ver |-> ver, t |-> t]
\* a text file: absent, or holding a text
NoFile == [exists |-> FALSE, text |-> <<>>]
File(text) == [exists |-> TRUE, text |-> text]
\* an archive path backup/Backup-<timestamp>.<ext>
Archive(ts, ext) == [ts |-> ts, ext |-> ext]
NoArchive == Archive(-1, "none")
RAISED == Archive(-1, "raised")
\* top-level entries of the install directory that the model follows
Names == preserve_items \cup {BEDROCK_EXECUTABLE, "definitions"}
\* the top-level entries of an extracted release
ReleaseNames == Names
WS == {" ", "\n"}
VersionTokens == {"1.21.0.3", "1.21.0.4"}
\* a text is a sequence of tokens; a url is a text
Url(v) == <<"https://host/bin-linux/", "bedrock-server-", v, ".zip">>
URLS == {Url("1.21.0.3"), Url("1.21.0.4"), Url("latest")}
\* what updater/server_version.txt may hold before the first run
InitialMarkers ==
  {NoFile, File(<<>>), File(<<"1.21.0.3">>), File(<<"1.21.0.3", "\n">>)}
\* the install directory before the first run: name -> stamp of the entry
\* (a stamp stands for the entry's files, their sizes and mtimes)
EmptyDir == [n \in Names |-> NoEntry]
FullInstall == [n \in Names |-> Stamp("old", "", 0)]
PartInstall ==
  [n \in Names |->
     IF n \in {"allowlist.json", "config"} THEN NoEntry ELSE Stamp("old", "", 0)]
\* a directory without a server holds no marker yet
InitialDisks ==
  {<<EmptyDir, NoFile>>}
  \cup {<<d, m>> : d \in {FullInstall, PartInstall}, m \in InitialMarkers}

(* ------------------------------ helpers ------------------------------- *)
Put(f, k, v) == [x \in DOMAIN f \cup {k} |-> IF x = k THEN v ELSE f[x]]
Del(f, k) == [x \in DOMAIN f \ {k} |-> f[x]]
Min(a, b) == IF a < b THEN a ELSE b

\* str.strip(): drop leading and trailing whitespace
RECURSIVE LStrip(_)
LStrip(s) == IF s # <<>> /\ Head(s) \in WS THEN LStrip(Tail(s)) ELSE s
RECURSIVE RStrip(_)
RStrip(s) ==
  IF s # <<>> /\ s[Len(s)] \in WS THEN RStrip(SubSeq(s, 1, Len(s) - 1)) ELSE s
Strip(s) == RStrip(LStrip(s))

\* re.search(r'bedrock-server-(\d+\.\d+\.\d+\.\d+)', link): group(1) or "unknown"
VersionMatches(link) ==
  {i \in 1..(Len(link) - 1) :
     link[i] = "bedrock-server-" /\ link[i + 1] \in VersionTokens}
ExtractVersion(link) ==
  IF VersionMatches(link) = {} THEN "unknown"
  ELSE LET i == CHOOSE j \in VersionMatches(link) :
                  \A k \in VersionMatches(link) : j <= k
       IN link[i + 1]

\* math.ceil(file_size / chunk_size)
CeilDiv(a, b) == IF a % b = 0 THEN a \div b ELSE (a \div b) + 1
num_chunks(size) == CeilDiv(size, chunk_size)
\* the i-th (0-based) tuple appended to chunks
ChunkStart(i) == i * chunk_size
ChunkEndNoMin(i, size) == ChunkStart(i) + chunk_size - 1
ChunkEnd(i, size) == Min(ChunkStart(i) + chunk_size - 1, size - 1)

\* sizes a Content-Length may report: around each multiple of chunk_size
SizesUpTo(n) ==
  {s \in {k * chunk_size + d : k \in 0..n, d \in {-1, 0, 1}} :
     s >= 0 /\ s <= n * chunk_size}

(* ------------------------------- files -------------------------------- *)
\* The bytes of a file are a set of extents [start, end, src]: bytes
\* start..end hold source bytes src..src+(end-start).  Bytes below the
\* file's length that no extent covers are zero (a hole left by seek).
FileLen(ext) ==
  IF ext = {} THEN 0
  ELSE (CHOOSE e \in ext : \A o \in ext : o.end <= e.end).end + 1
\* f.write(data) at position pos, data being n source bytes from src
WriteAt(ext, pos, src, n) ==
  LET last == pos + n - 1
      left == {[start |-> e.start, end |-> pos - 1, src |-> e.src] :
                 e \in {o \in ext : o.start < pos /\ o.end >= pos}}
      right == {[start |-> last + 1, end |-> e.end,
                 src |-> e.src + (last + 1 - e.start)] :
                 e \in {o \in ext : o.start <= last /\ o.end > last}}
      keep == {e \in ext : e.end < pos \/ e.start > last}
  IN IF n = 0 THEN ext
     ELSE keep \cup left \cup right
          \cup {[start |-> pos, end |-> last, src |-> src]}
\* the byte at offset i: <<"src", j>> is byte j of the remote source
ByteAt(ext, i) ==
  IF \E e \in ext : e.start <= i /\ i <= e.end
    THEN LET e == CHOOSE o \in ext : o.start <= i /\ i <= o.end
         IN <<"src", e.src + (i - e.start)>>
    ELSE <<"zero", 0>>
(* ------------------------------- state -------------------------------- *)
VARIABLES
  \* on disk, kept from run to run
  install_dir,         \* name -> stamp of the top-level entry (NoEntry: absent)
  version_file,        \* updater/server_version.txt
  download_link_file,  \* updater/download_link.txt
  backup_hashes,       \* backup/backup_hashes.json: hash -> archive path
  archives,            \* the archive files that exist in backup/
  zips,                \* versions v whose resources/bedrock-server-v.zip exists
  now,                 \* the wall clock, in seconds
  \* the running script
  pc, exit_status, ended, newInstall, backup_path, download_link,
  local_version, version, file_size, chunks, futures, server_zip, fpos,
  temp_dir,
  \* history, for stating the properties
  runs,                \* runs started so far
  did,                 \* the steps this run has performed
  installBefore,       \* install_dir when this run started
  markerBefore,        \* version_file when this run started
  backup_written,      \* archive files the last create_backup call wrote
  backup_hash,         \* current_hash of the last create_backup call
  last                 \* the last create_backup call that returned a path

disk == <<install_dir, version_file, download_link_file, backup_hashes,
          archives, zips, now>>
script == <<pc, exit_status, ended, newInstall, backup_path, download_link,
            local_version, version, file_size, chunks, futures, server_zip,
            fpos, temp_dir>>
history == <<runs, did, installBefore, markerBefore, backup_written,
             backup_hash, last>>
vars == <<disk, script, history>>

NoLast == [ok |-> FALSE, items |-> EmptyDir, hash |-> {}, path |-> NoArchive]

\* the script's variables before its first statement
Fresh ==
  /\ pc = "detect"
  /\ exit_status = -1
  /\ ended = "running"
  /\ newInstall = FALSE
  /\ backup_path = NoArchive
  /\ download_link = <<>>
  /\ local_version = <<>>
  /\ version = ""
  /\ file_size = 0
  /\ chunks = <<>>
  /\ futures = <<>>
  /\ server_zip = {}
  /\ fpos = 0
  /\ temp_dir = EmptyDir
  /\ did = {}
  /\ backup_written = {}
  /\ backup_hash = {}

Init ==
  /\ \E d \in InitialDisks : install_dir = d[1] /\ version_file = d[2]
  /\ download_link_file = NoFile
  /\ backup_hashes = <<>>
  /\ archives = {}
  /\ zips = {}
  /\ now = 1
  /\ Fresh
  /\ runs = 1
  /\ installBefore = install_dir
  /\ markerBefore = version_file
  /\ last = NoLast

\* exit(code), or the interpreter ending on an uncaught exception (code 1)
Exit(code, how) ==
  /\ pc' = "exited"
  /\ exit_status' = code
  /\ ended' = how

(* ------------------------ install detection --------------------------- *)
\* `if not newInstall:` guards the call of create_backup
NeedsBackupNever(new) == FALSE
NeedsBackup(new) == ~new

Detect ==
  /\ pc = "detect"
  /\ LET new == install_dir[BEDROCK_EXECUTABLE] = NoEntry
     IN /\ newInstall' = new
        /\ \E user_input \in {"y", "n"} :
             IF new /\ user_input # "y"
               THEN Exit(0, "declined")
               ELSE /\ pc' = IF NeedsBackup(new) THEN "backup" ELSE "resolve"
                    /\ UNCHANGED <<exit_status, ended>>
  /\ did' = did \cup {"detect"}
  /\ UNCHANGED <<disk, backup_path, download_link, local_version, version,
                 file_size, chunks, futures, server_zip, fpos, temp_dir,
                 runs, installBefore, markerBefore, backup_written,
                 backup_hash, last>>

(* --------------------------- Backup Engine ---------------------------- *)
listdir ==
  {n \in Names : install_dir[n] # NoEntry} \cup {SCRIPT, "backup"}
  \cup (IF version_file.exists \/ download_link_file.exists
          THEN {"updater"} ELSE {})
items_to_backup == {item \in listdir : item \notin excluded_items}

\* sha256 over the sorted "name|size|mtime" lines: the digest is modelled by
\* the set of (name, stamp) pairs it is computed from
HashWithClock(items) == {<<item, install_dir[item], now>> : item \in items}
calculate_folder_hash(items) == {<<item, install_dir[item]>> : item \in items}

BackupFaults == {"none", "subprocess", "zipfile", "save"}

\* create_backup(): seven is whether shutil.which finds 7z, fault is the
\* call that raises in this invocation (none, subprocess.run, the zipfile
\* writes, save_backup_hashes).  ret = RAISED: the exception left the call.
create_backup(seven, fault) ==
  LET current_hash == calculate_folder_hash(items_to_backup)
      known == current_hash \in DOMAIN backup_hashes
      stale == known /\ backup_hashes[current_hash] \notin archives
      pruned == IF stale THEN Del(backup_hashes, current_hash)
                ELSE backup_hashes
      timestamp == now
      backup_archive == Archive(timestamp, "7z")
      backup_zip == Archive(timestamp, "zip")
      Result(ret, hs, ar, wr) ==
        [ret |-> ret, hashes |-> hs, archives |-> ar, written |-> wr,
         hash |-> current_hash]
  IN IF known /\ ~stale
       THEN Result(backup_hashes[current_hash], backup_hashes, archives, {})
     ELSE IF stale /\ fault = "save"
       \* save_backup_hashes raises at line 127; nothing was written
       THEN Result(RAISED, backup_hashes, archives, {})
     ELSE IF seven /\ fault # "subprocess"
       THEN IF fault = "save"
              \* the handler removes only Backup-<timestamp>.zip
              THEN Result(RAISED, pruned,
                          (archives \cup {backup_archive}) \ {backup_zip},
                          {backup_archive})
              ELSE Result(backup_archive,
                          Put(pruned, current_hash, backup_archive),
                          archives \cup {backup_archive}, {backup_archive})
     ELSE IF fault \in {"zipfile", "save"}
       THEN Result(RAISED, pruned, archives \ {backup_zip}, {backup_zip})
     ELSE Result(backup_zip, Put(pruned, current_hash, backup_zip),
                 archives \cup {backup_zip}, {backup_zip})

CreateBackup ==
  /\ pc = "backup"
  /\ \E seven \in BOOLEAN, fault \in BackupFaults :
       LET r == create_backup(seven, fault)
       IN /\ backup_hashes' = r.hashes
          /\ archives' = r.archives
          /\ backup_path' = r.ret
          /\ backup_written' = r.written
          /\ backup_hash' = r.hash
          /\ IF r.ret = RAISED
               THEN Exit(1, "backup_error") /\ UNCHANGED last
               ELSE /\ pc' = "resolve"
                    /\ UNCHANGED <<exit_status, ended>>
                    /\ last' = [ok |-> TRUE, items |-> install_dir,
                                hash |-> r.hash, path |-> r.ret]
  /\ did' = did \cup {"backup"}
  /\ UNCHANGED <<install_dir, version_file, download_link_file, zips, now,
                 newInstall, download_link, local_version, version,
                 file_size, chunks, futures, server_zip, fpos, temp_dir,
                 runs, installBefore, markerBefore>>
(* -------------------------- Release Resolver -------------------------- *)
\* The link comes from the primary endpoint or, after a Timeout, from the
\* fallback one; any other exception is not caught and ends the run.
Resolve ==
  /\ pc = "resolve"
  /\ \/ \E link \in URLS :
          /\ download_link' = link
          /\ pc' = "compare"
          /\ UNCHANGED <<exit_status, ended>>
     \/ /\ Exit(1, "resolve_error")
        /\ UNCHANGED download_link
  /\ did' = did \cup {"resolve"}
  /\ UNCHANGED <<disk, newInstall, backup_path, local_version, version,
                 file_size, chunks, futures, server_zip, fpos, temp_dir,
                 runs, installBefore, markerBefore, backup_written,
                 backup_hash, last>>

(* ------------------------- version comparison ------------------------- *)
\* f.read().strip(), an empty text becoming None (the empty text here)
ReadLocalVersion(f) == IF f.exists THEN Strip(f.text) ELSE <<>>

\* `if not newInstall and local_version and local_version == version`
UpToDateNever(new, local, ver) == FALSE
UpToDate(new, local, ver) == ~new /\ local # <<>> /\ local = <<ver>>

Compare ==
  /\ pc = "compare"
  /\ LET local == ReadLocalVersion(version_file)
         ver == ExtractVersion(download_link)
     IN /\ local_version' = local
        /\ version' = ver
        /\ IF UpToDate(newInstall, local, ver)
             THEN /\ download_link_file' = File(download_link)
                  /\ Exit(0, "up_to_date")
             ELSE /\ pc' = "head"
                  /\ UNCHANGED <<download_link_file, exit_status, ended>>
  /\ did' = did \cup {"compare"}
  /\ UNCHANGED <<install_dir, version_file, backup_hashes, archives, zips,
                 now, newInstall, backup_path, download_link, file_size,
                 chunks, futures, server_zip, fpos, temp_dir, runs,
                 installBefore, markerBefore, backup_written, backup_hash,
                 last>>

(* ------------------------- Chunked Downloader ------------------------- *)
\* the except branch of the download: os.remove(server_zip) if it exists
KeepPartial(zs, v) == zs
RemovePartial(zs, v) == zs \ {v}

DownloadError ==
  /\ zips' = RemovePartial(zips, version)
  /\ server_zip' = {}
  /\ fpos' = 0
  /\ Exit(1, "download_error")

\* requests.head: Content-Length (0 when the header is missing), or it raises
HeadRequest(sizes) ==
  /\ pc = "head"
  /\ \/ \E size \in sizes :
          /\ file_size' = size
          /\ pc' = "plan"
          /\ UNCHANGED <<zips, server_zip, fpos, exit_status, ended>>
     \/ /\ DownloadError
        /\ UNCHANGED file_size
  /\ did' = did \cup {"head"}
  /\ UNCHANGED <<install_dir, version_file, download_link_file,
                 backup_hashes, archives, now, newInstall, backup_path,
                 download_link, local_version, version, chunks, futures,
                 temp_dir, runs, installBefore, markerBefore,
                 backup_written, backup_hash, last>>

\* one pass of `for i in range(num_chunks)`
PlanStep ==
  /\ pc = "plan"
  /\ Len(chunks) < num_chunks(file_size)
  /\ LET i == Len(chunks)
     IN chunks' = Append(chunks, [start |-> ChunkStart(i),
                                  end |-> ChunkEnd(i, file_size),
                                  url |-> download_link])
  /\ UNCHANGED <<disk, pc, exit_status, ended, newInstall, backup_path,
                 download_link, local_version, version, file_size, futures,
                 server_zip, fpos, temp_dir, history>>

\* open(server_zip, 'wb') and executor.submit for every chunk
Submit ==
  /\ pc = "plan"
  /\ Len(chunks) = num_chunks(file_size)
  /\ zips' = zips \cup {version}
  /\ server_zip' = {}
  /\ fpos' = 0
  /\ futures' = [j \in 1..Len(chunks) |-> "queued"]
  /\ pc' = "download"
  /\ UNCHANGED <<install_dir, version_file, download_link_file,
                 backup_hashes, archives, now, exit_status, ended,
                 newInstall, backup_path, download_link, local_version,
                 version, file_size, chunks, temp_dir, history>>

Running == {j \in DOMAIN futures : futures[j] = "running"}
Unfinished == {j \in DOMAIN futures : futures[j] \in {"queued", "running"}}

\* a free worker of the pool takes the oldest queued work item and sends
\* its range request
WorkerStart(j) ==
  /\ pc \in {"download", "abort"}
  /\ futures[j] = "queued"
  /\ \A k \in 1..(j - 1) : futures[k] # "queued"
  /\ Cardinality(Running) < max_workers
  /\ futures' = [futures EXCEPT ![j] = "running"]
  /\ did' = did \cup {"get"}
  /\ UNCHANGED <<disk, pc, exit_status, ended, newInstall, backup_path,
                 download_link, local_version, version, file_size, chunks,
                 server_zip, fpos, temp_dir, runs, installBefore,
                 markerBefore, backup_written, backup_hash, last>>

\* download_chunk returns (start, response.content), or requests.get raises
WorkerFinish(j) ==
  /\ pc \in {"download", "abort"}
  /\ futures[j] = "running"
  /\ \/ futures' = [futures EXCEPT ![j] = "done"]
     \/ futures' = [futures EXCEPT ![j] = "failed"]
  /\ UNCHANGED <<disk, pc, exit_status, ended, newInstall, backup_path,
                 download_link, local_version, version, file_size, chunks,
                 server_zip, fpos, temp_dir, history>>

\* response.content of a range request: the bytes start..end of the source
Content(c) == [src |-> c.start, n |-> c.end - c.start + 1]

\* f.seek(start): the position the next write goes to
NoSeek(cur, start) == cur
Seek(cur, start) == start

\* one pass of `for future in as_completed(futures)`: future.result() gives
\* (start, data), written at start, or raises what download_chunk raised
Consume(j) ==
  /\ pc = "download"
  /\ \/ /\ futures[j] = "done"
        /\ LET data == Content(chunks[j])
               pos == Seek(fpos, chunks[j].start)
           IN /\ server_zip' = WriteAt(server_zip, pos, data.src, data.n)
              /\ fpos' = pos + data.n
        /\ futures' = [futures EXCEPT ![j] = "written"]
        /\ pc' = pc
     \/ /\ futures[j] = "failed"
        /\ pc' = "abort"
        /\ UNCHANGED <<futures, server_zip, fpos>>
  /\ UNCHANGED <<disk, exit_status, ended, newInstall, backup_path,
                 download_link, local_version, version, file_size, chunks,
                 temp_dir, history>>

\* every future was consumed: the pool and the file are closed (line 304)
DownloadOk ==
  /\ pc = "download"
  /\ \A j \in DOMAIN futures : futures[j] = "written"
  /\ pc' = "extract"
  /\ UNCHANGED <<disk, exit_status, ended, newInstall, backup_path,
                 download_link, local_version, version, file_size, chunks,
                 futures, server_zip, fpos, temp_dir, history>>

\* the exception leaves the with blocks: shutdown(wait=True) lets every
\* submitted request finish, then the handler removes the file and exits
DownloadAbort ==
  /\ pc = "abort"
  /\ Unfinished = {}
  /\ DownloadError
  /\ UNCHANGED <<install_dir, version_file, download_link_file,
                 backup_hashes, archives, now, newInstall, backup_path,
                 download_link, local_version, version, file_size, chunks,
                 futures, temp_dir, history>>
(* ----------------------------- extraction ----------------------------- *)
\* the temp directory is emptied and the zip extracted into it; extracted
\* files carry the time of extraction.  A failure removes temp and exits 1.
Extract ==
  /\ pc = "extract"
  /\ \/ /\ temp_dir' = [n \in Names |->
                          IF n \in ReleaseNames
                            THEN Stamp("rel", version, now) ELSE NoEntry]
        /\ pc' = "merge"
        /\ UNCHANGED <<exit_status, ended>>
     \/ /\ temp_dir' = EmptyDir
        /\ Exit(1, "extract_error")
  /\ did' = did \cup {"extract"}
  \* nothing reads the download's variables from here on
  /\ file_size' = 0
  /\ chunks' = <<>>
  /\ futures' = <<>>
  /\ server_zip' = {}
  /\ fpos' = 0
  /\ UNCHANGED <<disk, newInstall, backup_path, download_link,
                 local_version, version, runs, installBefore,
                 markerBefore, backup_written, backup_hash, last>>

(* --------------------------- Merge Engine ----------------------------- *)
\* `item not in preserve_items` decides, in an upgrade, what is replaced
PreservedButProperties(item) == item \in preserve_items \ {"server.properties"}
IsPreserved(item) == item \in preserve_items

\* the entries of temp_dir the loop replaces
ToReplace(new) ==
  {item \in Names :
     temp_dir[item] # NoEntry /\ (new \/ ~IsPreserved(item))}

\* one entry: remove dst, then copy2/copytree src (mtime kept); an
\* exception is caught per entry, before the remove or after it
MergeEntry(dst, src, outcome) ==
  CASE outcome = "ok" -> src
    [] outcome = "fail_remove" -> dst
    [] outcome = "fail_copy" -> NoEntry

Merge ==
  /\ pc = "merge"
  /\ \E bad \in SUBSET ToReplace(newInstall) :
       /\ Cardinality(bad) <= MaxMergeFaults
       /\ \E how \in [bad -> {"fail_remove", "fail_copy"}] :
            install_dir' =
              [item \in Names |->
                 IF item \notin ToReplace(newInstall) THEN install_dir[item]
                 ELSE MergeEntry(install_dir[item], temp_dir[item],
                                 IF item \in bad THEN how[item] ELSE "ok")]
       /\ did' = did \cup {"merge"}
                 \cup (IF bad = {} THEN {} ELSE {"merge_error"})
  /\ pc' = "finish"
  /\ UNCHANGED <<version_file, download_link_file, backup_hashes, archives,
                 zips, now, exit_status, ended, newInstall, backup_path,
                 download_link, local_version, version, file_size, chunks,
                 futures, server_zip, fpos, temp_dir, runs, installBefore,
                 markerBefore, backup_written, backup_hash, last>>

(* -------------------------- version marker ---------------------------- *)
\* "After successful update, write the version and download link": the two
\* writes and the rmtree of temp sit in one try whose failure only warns
WriteMarker ==
  /\ pc = "finish"
  /\ \/ /\ version_file' = File(<<version>>)
        /\ download_link_file' = File(download_link)
        /\ temp_dir' = EmptyDir
     \/ /\ version_file' = File(<<version>>)
        /\ UNCHANGED <<download_link_file, temp_dir>>
     \/ UNCHANGED <<version_file, download_link_file, temp_dir>>
  /\ Exit(0, "done")
  /\ did' = did \cup {"marker"}
  /\ UNCHANGED <<install_dir, backup_hashes, archives, zips, now,
                 newInstall, backup_path, download_link, local_version,
                 version, file_size, chunks, futures, server_zip, fpos,
                 runs, installBefore, markerBefore, backup_written,
                 backup_hash, last>>

(* ------------------------- from run to run ---------------------------- *)
\* Between two runs time passes, and the user may edit server.properties
\* or delete an archive from backup/.  The next run starts afresh.
NewRun ==
  /\ pc = "exited"
  /\ runs < MaxRuns
  /\ runs' = runs + 1
  /\ now' = now + 1
  /\ \/ UNCHANGED <<install_dir, archives>>
     \/ /\ install_dir["server.properties"] # NoEntry
        /\ install_dir' = [install_dir EXCEPT
                             !["server.properties"] = Stamp("user", "", now')]
        /\ UNCHANGED archives
     \/ /\ \E a \in archives : archives' = archives \ {a}
        /\ UNCHANGED install_dir
  /\ pc' = "detect"
  /\ exit_status' = -1
  /\ ended' = "running"
  /\ newInstall' = FALSE
  /\ backup_path' = NoArchive
  /\ download_link' = <<>>
  /\ local_version' = <<>>
  /\ version' = ""
  /\ file_size' = 0
  /\ chunks' = <<>>
  /\ futures' = <<>>
  /\ server_zip' = {}
  /\ fpos' = 0
  /\ temp_dir' = EmptyDir
  /\ did' = {}
  /\ backup_written' = {}
  /\ backup_hash' = {}
  /\ installBefore' = install_dir'
  /\ markerBefore' = version_file
  /\ UNCHANGED <<version_file, download_link_file, backup_hashes, zips,
                 last>>

(* --------------------------- specifications --------------------------- *)
\* the steps of a download, from the partitioning to its end
Download ==
  \/ PlanStep
  \/ Submit
  \/ \E j \in DOMAIN futures : WorkerStart(j)
  \/ \E j \in DOMAIN futures : WorkerFinish(j)
  \/ \E j \in DOMAIN futures : Consume(j)
  \/ DownloadOk
  \/ DownloadAbort

\* the steps after a download
Install ==
  \/ Extract
  \/ Merge
  \/ WriteMarker

\* the steps of a run up to the version comparison
Prepare ==
  \/ Detect
  \/ CreateBackup
  \/ Resolve
  \/ Compare

\* one run of the script
NextRun ==
  \/ Prepare
  \/ HeadRequest(SizesUpTo(MaxRunChunks))
  \/ Download
  \/ Install

\* the script, run again and again on the same directory
Next == NextRun \/ NewRun

Spec == Init /\ [][Next]_vars

\* a single run
SpecRun == Init /\ [][NextRun]_vars

\* The Backup Engine from run to run: the runs are followed up to the
\* version comparison (they end as up to date, or on an exception).
NextBackup == Prepare \/ NewRun

SpecBackup == Init /\ [][NextBackup]_vars

\* The Chunked Downloader: a first installation that has resolved its link,
\* followed from the HEAD request to the end of the run, with downloads of
\* up to MaxChunks ranges.
InitDownload ==
  /\ install_dir = EmptyDir
  /\ version_file = NoFile
  /\ download_link_file = NoFile
  /\ backup_hashes = <<>>
  /\ archives = {}
  /\ zips = {}
  /\ now = 1
  /\ pc = "head"
  /\ exit_status = -1
  /\ ended = "running"
  /\ newInstall = TRUE
  /\ backup_path = NoArchive
  /\ download_link = Url("1.21.0.4")
  /\ local_version = <<>>
  /\ version = ExtractVersion(Url("1.21.0.4"))
  /\ file_size = 0
  /\ chunks = <<>>
  /\ futures = <<>>
  /\ server_zip = {}
  /\ fpos = 0
  /\ temp_dir = EmptyDir
  /\ runs = 1
  /\ did = {"detect", "resolve", "compare"}
  /\ installBefore = EmptyDir
  /\ markerBefore = NoFile
  /\ backup_written = {}
  /\ backup_hash = {}
  /\ last = NoLast

NextDownload ==
  \/ HeadRequest(SizesUpTo(MaxChunks))
  \/ Download
  \/ Install

SpecDownload == InitDownload /\ [][NextDownload]_vars

\* The partitioning alone, for every size up to MaxPlanChunks ranges and
\* the size 2,500,000: the state after the HEAD request answered.
ExampleSizes == {2500000}
InitPlan ==
  /\ install_dir = EmptyDir
  /\ version_file = NoFile
  /\ download_link_file = NoFile
  /\ backup_hashes = <<>>
  /\ archives = {}
  /\ zips = {}
  /\ now = 1
  /\ pc = "plan"
  /\ exit_status = -1
  /\ ended = "running"
  /\ newInstall = TRUE
  /\ backup_path = NoArchive
  /\ download_link = Url("1.21.0.4")
  /\ local_version = <<>>
  /\ version = ExtractVersion(Url("1.21.0.4"))
  /\ file_size \in SizesUpTo(MaxPlanChunks) \cup ExampleSizes
  /\ chunks = <<>>
  /\ futures = <<>>
  /\ server_zip = {}
  /\ fpos = 0
  /\ temp_dir = EmptyDir
  /\ runs = 1
  /\ did = {"detect", "resolve", "compare", "head"}
  /\ installBefore = EmptyDir
  /\ markerBefore = NoFile
  /\ backup_written = {}
  /\ backup_hash = {}
  /\ last = NoLast

SpecPlan == InitPlan /\ [][PlanStep]_vars
(* ------------------------------ properties ---------------------------- *)
\* the offsets at which the content of a file of extents can change
Probes(ext, size) ==
  {i \in {0} \cup {e.start : e \in ext} \cup {e.end : e \in ext}
         \cup {e.end + 1 : e \in ext} : 0 <= i /\ i < size}

\* C1: a download that ends in success leaves a file of exactly file_size
\* bytes whose byte i is byte i of the source, whatever the order in which
\* the range requests completed.  (Between two probes the file's content is
\* one extent or one hole, so the probes decide every byte.)
C1_DownloadContent ==
  pc = "extract" =>
    /\ version \in zips
    /\ FileLen(server_zip) = file_size
    /\ \A e \in server_zip : e.start <= e.end
    /\ \A i \in Probes(server_zip, file_size) :
         ByteAt(server_zip, i) = <<"src", i>>

\* a download of more ranges than workers whose last write was not the
\* last range: the ranges were written out of order
C1_Witness ==
  /\ pc = "extract"
  /\ Len(chunks) > max_workers
  /\ fpos # file_size
  /\ FileLen(server_zip) = file_size

\* C2: the plan for size S has ceil(S / 1048576) ranges, the first starts
\* at 0, each next one starts at the previous end + 1, none has more than
\* 1048576 bytes, and the last ends at S - 1.
C2_Partition ==
  (pc = "plan" /\ Len(chunks) = num_chunks(file_size)) =>
    LET n == Len(chunks)
        S == file_size
    IN /\ n * 1048576 >= S
       /\ (n - 1) * 1048576 < S \/ (n = 0 /\ S = 0)
       /\ n > 0 => chunks[1].start = 0 /\ chunks[n].end = S - 1
       /\ \A k \in 2..n : chunks[k].start = chunks[k - 1].end + 1
       /\ \A k \in 1..n :
            /\ chunks[k].start <= chunks[k].end
            /\ chunks[k].end - chunks[k].start + 1 <= 1048576
       /\ S = 2500000 =>
            <<<<chunks[1].start, chunks[1].end>>,
              <<chunks[2].start, chunks[2].end>>,
              <<chunks[3].start, chunks[3].end>>>>
            = << <<0, 1048575>>, <<1048576, 2097151>>, <<2097152, 2499999>> >>

C2_Witness ==
  /\ pc = "plan"
  /\ file_size = 2500000
  /\ Len(chunks) = 3
  /\ chunks[3].end = 2499999

\* C3: when create_backup is called with the entries as they were at the
\* last call that returned a path, and that archive still exists, it
\* computes the same hash, returns the same path, writes no archive and
\* leaves the record holding that hash -> that path.
C3_SecondBackupReuses ==
  [][(/\ pc = "backup"
      /\ last.ok
      /\ last.items = install_dir
      /\ last.path \in archives)
     => (/\ backup_hash' = last.hash
         /\ backup_path' = last.path
         /\ backup_written' = {}
         /\ archives' = archives
         /\ DOMAIN backup_hashes' = DOMAIN backup_hashes
         /\ last.hash \in DOMAIN backup_hashes'
         /\ backup_hashes'[last.hash] = last.path)]_vars

\* the second run returned, without writing, the archive of the first
C3_Witness ==
  /\ runs = 2
  /\ "backup" \in did
  /\ backup_path = last.path
  /\ backup_path \in archives
  /\ backup_path.ts < now
  /\ backup_written = {}
  /\ install_dir = last.items

AllowList ==
  {"config", "behavior_packs", "resource_packs", "allowlist.json",
   "permissions.json", "server.properties"}

\* C4: in an upgrade every entry of the allow-list is, throughout the run,
\* what it was before (not deleted, overwritten or created), and a merge
\* without errors has replaced every other entry the release holds.
C4_UpgradePreserves ==
  ("detect" \in did /\ ~newInstall) =>
    /\ \A item \in AllowList : install_dir[item] = installBefore[item]
    /\ (pc = "finish" /\ "merge_error" \notin did) =>
         \A item \in Names \ AllowList :
           temp_dir[item] # NoEntry => install_dir[item] = temp_dir[item]

C4_Witness ==
  /\ pc = "finish"
  /\ ~newInstall
  /\ temp_dir["server.properties"] # NoEntry
  /\ installBefore["server.properties"] # NoEntry
  /\ temp_dir["config"] # NoEntry
  /\ installBefore["config"] = NoEntry
  /\ install_dir[BEDROCK_EXECUTABLE] = temp_dir[BEDROCK_EXECUTABLE]
  /\ install_dir[BEDROCK_EXECUTABLE] # installBefore[BEDROCK_EXECUTABLE]

\* C5: on an existing installation whose stored version is non-empty and
\* equal to the version of the resolved link, the run sends no HEAD and no
\* range request, changes no install entry and not the marker, rewrites
\* download_link.txt with the link and exits with status 0.
C5_UpToDateExit ==
  (/\ "compare" \in did
   /\ ~newInstall
   /\ markerBefore.exists
   /\ markerBefore.text # <<>>
   /\ markerBefore.text = <<version>>)
  => /\ pc = "exited"
     /\ exit_status = 0
     /\ did \cap {"head", "get", "extract", "merge", "marker"} = {}
     /\ install_dir = installBefore
     /\ version_file = markerBefore
     /\ download_link_file = File(download_link)

C5_Witness ==
  /\ pc = "exited"
  /\ ended = "up_to_date"
  /\ markerBefore.text = <<"1.21.0.3">>
  /\ version = "1.21.0.3"
  /\ download_link_file = File(Url("1.21.0.3"))

\* C6: when the link holds no x.y.z.w version, the version is "unknown"
\* and the run never takes the up-to-date exit, whatever the marker holds.
C6_UnknownAlwaysUpdates ==
  /\ \A link \in URLS :
       VersionMatches(link) = {} => ExtractVersion(link) = "unknown"
  /\ ("compare" \in did /\ VersionMatches(download_link) = {}) =>
       /\ version = "unknown"
       /\ ended # "up_to_date"
       /\ pc = "exited" => "head" \in did

C8_FailedBackupLeavesNoArchive ==
  backup_path = RAISED =>
    /\ pc = "exited"
    /\ backup_written \cap archives = {}

\* C9: on an existing installation nothing is resolved, requested or
\* modified before create_backup has returned an archive path, and a run
\* whose create_backup raised ends without doing any of it.
C9_BackupFirst ==
  /\ (/\ "detect" \in did
      /\ ~newInstall
      /\ \/ did \cap {"resolve", "compare", "head", "get", "extract",
                      "merge", "marker"} # {}
         \/ install_dir # installBefore)
     => /\ "backup" \in did
        /\ backup_path \notin {NoArchive, RAISED}
        /\ backup_path \in archives
  /\ backup_path = RAISED =>
       /\ pc = "exited"
       /\ exit_status # 0
       /\ did \cap {"resolve", "compare", "head", "get", "extract",
                    "merge", "marker"} = {}
       /\ install_dir = installBefore

C9_Witness ==
  /\ ~newInstall
  /\ "merge" \in did
  /\ install_dir # installBefore
  /\ backup_path \in archives
  /\ backup_path \in backup_written

\* C10: the marker is overwritten only in a run whose download, extraction
\* and merge of every replaced entry succeeded; a run that ends through a
\* download or extraction failure, or in which the update of an entry
\* failed, leaves the marker as it was at the start of the run.
C10_MarkerOnlyAfterSuccess ==
  /\ version_file # markerBefore =>
       /\ {"head", "extract", "merge"} \subseteq did
       /\ "merge_error" \notin did
  /\ (\/ ended \in {"download_error", "extract_error"}
      \/ "merge_error" \in did)
     => version_file = markerBefore
====
